---- MODULE Spec2Model ----
(***************************************************************************)
(* Model of service.go (package master): the connection counter guarded by *)
(* connMutex, the acquisition of inherited listeners (getListeners) and    *)
(* the shutdown monitor (monitorMaster) that drains connections when the   *)
(* master closes or writes the control connection; and, of the start-up,   *)
(* the hook slots, getListenersByAddrs and the privilege drop (chroot).    *)
(***************************************************************************)
EXTENDS Integers, Sequences, FiniteSets, TLC

\* ---------------------------------------------------------------- bounds
NumWorkers == 2      \* goroutines calling connCountInc/Dec/Cur
MaxCalls == 3        \* calls of connCountInc/Dec/Cur issued in one run
MaxFdCount == 2      \* largest listenFdCount ("-s" argument)
MaxWaitExit == 3     \* largest drain deadline tried
MaxSleeps == 2       \* sleeps allowed past the deadline (or in all, without one)
E2EConns == 3        \* connections of the end-to-end drain scenario
NumHandlers == 2     \* distinct functions given to OnPreJail/OnInit/OnExit
MaxRegs == 2         \* registrations made in one run
MaxAddrs == 3        \* longest address list given to getListenersByAddrs
NumAddrs == 3        \* distinct addresses

\* ------------------------------------------------------ program constants
listenFdStart == 6
DefaultWaitExit == 10

Procs == 1..NumWorkers
Monitor == NumWorkers + 1
NoHolder == 0 - 1

VARIABLES
    \* package state
    connCount,      \* int
    connMutex,      \* sync.RWMutex: [w |-> writer or NoHolder, r |-> set of readers]
    stopping,       \* bool
    waitExit,       \* int
    listenFdCount,  \* int, >= 1 after parseArgs
    \* getListeners
    glpc,           \* "loop" | "done"
    fd,             \* loop variable
    listeners,      \* sequence of descriptors converted to listeners
    closedFiles,    \* descriptors whose file was closed by getListeners
    convOk,         \* descriptors for which net.FileListener succeeded
    \* goroutines using the counter
    wpc, wtmp,
    \* monitorMaster
    mpc, conn, readResult, onStopHandler, n, i, lnIdx, closedLn,
    \* history of the run
    hookCalls,      \* number of onStopHandler() calls
    exitCalls,      \* arguments of the stopHandler calls, in order
    polls,          \* reads of connCount made by the drain loop
    lastPoll,       \* the value the latest of them read
    allPos,         \* every one of them read a value > 0
    slept,          \* completed time.Sleep(time.Second) calls
    readReturned,   \* the read of the control connection has returned
    everPos,        \* connCount was > 0 at or after the return of the control read
    incSincePoll,   \* a connCountInc has stored since the latest read of the drain loop
    incStarted, incDone, decStarted, decDone, curStarted,
    paired,         \* every connCountDec so far began after its connCountInc returned
    \* the hook slots
    preJailHandler, initHandler, exitHandler,
    regLog,         \* the registrations made, in order: <<slot, handler>>
    \* getListenersByAddrs
    addrs,          \* the argument
    apc,            \* "loop" | "done" | "panicked"
    aidx,           \* position of the range loop
    alisteners,     \* local listeners: the addresses bound and appended
    bound,          \* addresses this process holds a listening socket on
    aret,           \* <<"none">>, or <<"value", the sequence returned>>
    bindFailedAt,   \* position of the address net.Listen failed on, or 0
    \* chroot
    cpc,            \* position in chroot()
    masterArgs, privilege, username, chrootOn, rootDir,
    userRec,        \* result of user.Lookup: <<>> or <<[Gid |-> .., Uid |-> ..]>>
    procGid, procUid, procRoot, procCwd,
    sysCalls        \* the identity and confinement calls attempted, in order

ctrVars == <<connCount, connMutex>>
acqVars == <<listenFdCount, glpc, fd, listeners, closedFiles, convOk>>
wrkVars == <<wpc, wtmp>>
monVars == <<stopping, waitExit, mpc, conn, readResult, onStopHandler, n, i, lnIdx, closedLn>>
monHist == <<hookCalls, exitCalls, polls, lastPoll, allPos, slept>>
ctrHist == <<incStarted, incDone, decStarted, decDone, curStarted, paired>>
sigHist == <<readReturned, everPos, incSincePoll>>
hookVars == <<preJailHandler, initHandler, exitHandler, regLog>>
adrVars == <<addrs, apc, aidx, alisteners, bound, aret, bindFailedAt>>
cfgVars == <<masterArgs, privilege, username, chrootOn, rootDir>>
prcVars == <<procGid, procUid, procRoot, procCwd>>
chrVars == <<cpc, cfgVars, userRec, prcVars, sysCalls>>
bootVars == <<hookVars, adrVars, chrVars>>
coreVars == <<ctrVars, acqVars, wrkVars, monVars, monHist, ctrHist, sigHist>>
vars == <<coreVars, bootVars>>

\* ------------------------------------------------------------ sync.RWMutex
CanLockNoExclusion == TRUE
CanLock == connMutex.w = NoHolder /\ connMutex.r = {}

CanRLock == connMutex.w = NoHolder

Lock(p) == [connMutex EXCEPT !.w = p]
Unlock(p) == [connMutex EXCEPT !.w = NoHolder]
RLock(p) == [connMutex EXCEPT !.r = @ \cup {p}]
RUnlock(p) == [connMutex EXCEPT !.r = @ \ {p}]

\* a panic of the monitor goroutine ends the process and every goroutine with it
Alive == mpc # "panicked"

\* ------------------------------------------------------------ getListeners
FdRange == listenFdStart .. (listenFdStart + listenFdCount - 1)

\* one iteration of the for loop; ok is the outcome of net.FileListener(file)
AfterConvSkipNot(ls, f, ok) == Append(ls, f)
AfterConv(ls, f, ok) == IF ok THEN Append(ls, f) ELSE ls

GetListenersStep ==
    /\ glpc = "loop"
    /\ fd < listenFdStart + listenFdCount
    /\ \E ok \in BOOLEAN :
         /\ listeners' = AfterConv(listeners, fd, ok)
         /\ closedFiles' = IF ok THEN closedFiles ELSE closedFiles \cup {fd}
         /\ convOk' = IF ok THEN convOk \cup {fd} ELSE convOk
    /\ fd' = fd + 1
    /\ UNCHANGED <<listenFdCount, glpc>>
    /\ UNCHANGED <<ctrVars, wrkVars, monVars, monHist, ctrHist, sigHist>>
    /\ UNCHANGED bootVars

GetListenersReturn ==
    /\ glpc = "loop"
    /\ ~(fd < listenFdStart + listenFdCount)
    /\ glpc' = "done"
    /\ UNCHANGED <<listenFdCount, fd, listeners, closedFiles, convOk>>
    /\ UNCHANGED <<ctrVars, wrkVars, monVars, monHist, ctrHist, sigHist>>
    /\ UNCHANGED bootVars

\* ------------------------------------------------------------ connCountInc
\* connCount++
IncValueDecrements(c) == c - 1
IncValue(c) == c + 1

IncLock(w) ==
    /\ Alive
    /\ wpc[w] = "idle"
    /\ CanLock
    /\ connMutex' = Lock(w)
    /\ wpc' = [wpc EXCEPT ![w] = "inc_locked"]
    /\ incStarted' = incStarted + 1
    /\ UNCHANGED <<connCount, wtmp, incDone, decStarted, decDone, curStarted, paired>>
    /\ UNCHANGED <<acqVars, monVars, monHist, sigHist>>
    /\ UNCHANGED bootVars

IncLoad(w) ==
    /\ Alive
    /\ wpc[w] = "inc_locked"
    /\ wtmp' = [wtmp EXCEPT ![w] = connCount]
    /\ wpc' = [wpc EXCEPT ![w] = "inc_loaded"]
    /\ UNCHANGED <<ctrVars, acqVars, monVars, monHist, ctrHist, sigHist>>
    /\ UNCHANGED bootVars

IncStore(w) ==
    /\ Alive
    /\ wpc[w] = "inc_loaded"
    /\ connCount' = IncValue(wtmp[w])
    /\ wpc' = [wpc EXCEPT ![w] = "inc_stored"]
    /\ everPos' = (everPos \/ (readReturned /\ connCount' > 0))
    /\ incSincePoll' = TRUE
    /\ UNCHANGED readReturned
    /\ UNCHANGED <<connMutex, wtmp, acqVars, monVars, monHist, ctrHist>>
    /\ UNCHANGED bootVars

IncUnlock(w) ==
    /\ Alive
    /\ wpc[w] = "inc_stored"
    /\ connMutex' = Unlock(w)
    /\ wpc' = [wpc EXCEPT ![w] = "idle"]
    /\ wtmp' = [wtmp EXCEPT ![w] = 0]
    /\ incDone' = incDone + 1
    /\ UNCHANGED <<connCount, incStarted, decStarted, decDone, curStarted, paired>>
    /\ UNCHANGED <<acqVars, monVars, monHist, sigHist>>
    /\ UNCHANGED bootVars

\* ------------------------------------------------------------ connCountDec
\* connCount--
DecValueIncrements(c) == c + 1
DecValue(c) == c - 1

DecLock(w) ==
    /\ Alive
    /\ wpc[w] = "idle"
    /\ CanLock
    /\ connMutex' = Lock(w)
    /\ wpc' = [wpc EXCEPT ![w] = "dec_locked"]
    /\ decStarted' = decStarted + 1
    /\ paired' = (paired /\ decStarted < incDone)
    /\ UNCHANGED <<connCount, wtmp, incStarted, incDone, decDone, curStarted>>
    /\ UNCHANGED <<acqVars, monVars, monHist, sigHist>>
    /\ UNCHANGED bootVars

DecLoad(w) ==
    /\ Alive
    /\ wpc[w] = "dec_locked"
    /\ wtmp' = [wtmp EXCEPT ![w] = connCount]
    /\ wpc' = [wpc EXCEPT ![w] = "dec_loaded"]
    /\ UNCHANGED <<ctrVars, acqVars, monVars, monHist, ctrHist, sigHist>>
    /\ UNCHANGED bootVars

DecStore(w) ==
    /\ Alive
    /\ wpc[w] = "dec_loaded"
    /\ connCount' = DecValue(wtmp[w])
    /\ wpc' = [wpc EXCEPT ![w] = "dec_stored"]
    /\ everPos' = (everPos \/ (readReturned /\ connCount' > 0))
    /\ UNCHANGED <<readReturned, incSincePoll>>
    /\ UNCHANGED <<connMutex, wtmp, acqVars, monVars, monHist, ctrHist>>
    /\ UNCHANGED bootVars

DecUnlock(w) ==
    /\ Alive
    /\ wpc[w] = "dec_stored"
    /\ connMutex' = Unlock(w)
    /\ wpc' = [wpc EXCEPT ![w] = "idle"]
    /\ wtmp' = [wtmp EXCEPT ![w] = 0]
    /\ decDone' = decDone + 1
    /\ UNCHANGED <<connCount, incStarted, incDone, decStarted, curStarted, paired>>
    /\ UNCHANGED <<acqVars, monVars, monHist, sigHist>>
    /\ UNCHANGED bootVars

\* ------------------------------------------------------------ connCountCur
CurRLock(w) ==
    /\ Alive
    /\ wpc[w] = "idle"
    /\ CanRLock
    /\ connMutex' = RLock(w)
    /\ wpc' = [wpc EXCEPT ![w] = "cur_locked"]
    /\ curStarted' = curStarted + 1
    /\ UNCHANGED <<connCount, wtmp, incStarted, incDone, decStarted, decDone, paired>>
    /\ UNCHANGED <<acqVars, monVars, monHist, sigHist>>
    /\ UNCHANGED bootVars

CurRead(w) ==
    /\ Alive
    /\ wpc[w] = "cur_locked"
    /\ wtmp' = [wtmp EXCEPT ![w] = connCount]
    /\ wpc' = [wpc EXCEPT ![w] = "cur_read"]
    /\ UNCHANGED <<ctrVars, acqVars, monVars, monHist, ctrHist, sigHist>>
    /\ UNCHANGED bootVars

CurReturn(w) ==
    /\ Alive
    /\ wpc[w] = "cur_read"
    /\ connMutex' = RUnlock(w)
    /\ wtmp' = [wtmp EXCEPT ![w] = 0]
    /\ wpc' = [wpc EXCEPT ![w] = "idle"]
    /\ UNCHANGED <<connCount, acqVars, monVars, monHist, ctrHist, sigHist>>
    /\ UNCHANGED bootVars

\* ----------------------------------------------------------- monitorMaster
\* net.FileConn on the control descriptor: ok is its outcome; on an error the
\* error is logged and conn stays nil
MonFileConn ==
    /\ glpc = "done"
    /\ mpc = "start"
    /\ \E ok \in BOOLEAN : conn' = IF ok THEN "conn" ELSE "nil"
    /\ mpc' = "read"
    /\ UNCHANGED <<stopping, waitExit, readResult, onStopHandler, n, i, lnIdx, closedLn>>
    /\ UNCHANGED <<ctrVars, acqVars, wrkVars, monHist, ctrHist, sigHist>>
    /\ UNCHANGED bootVars

\* where the monitor goes once conn.Read has returned res
AfterReadErrorReturns(res) == IF res = "error" THEN "done" ELSE "stopping"
AfterRead(res) == "stopping"

\* the blocking conn.Read: it returns when the master wrote data, closed the
\* connection (eof) or the read failed; on a nil conn the call panics
MonRead ==
    /\ mpc = "read"
    /\ \/ /\ conn = "nil"
          /\ mpc' = "panicked"
          /\ UNCHANGED <<readResult, readReturned, everPos, incSincePoll>>
       \/ /\ conn = "conn"
          /\ \E res \in {"data", "eof", "error"} :
               /\ readResult' = res
               /\ mpc' = AfterRead(res)
          /\ readReturned' = TRUE
          /\ everPos' = (connCount > 0)
          /\ UNCHANGED incSincePoll
    /\ UNCHANGED <<stopping, waitExit, conn, onStopHandler, n, i, lnIdx, closedLn>>
    /\ UNCHANGED <<ctrVars, acqVars, wrkVars, monHist, ctrHist>>
    /\ UNCHANGED bootVars

MonSetStopping ==
    /\ mpc = "stopping"
    /\ n' = 0
    /\ i' = 0
    /\ stopping' = TRUE
    /\ readResult' = "none"
    /\ mpc' = "stophook"
    /\ UNCHANGED <<waitExit, conn, onStopHandler, lnIdx, closedLn>>
    /\ UNCHANGED <<ctrVars, acqVars, wrkVars, monHist, ctrHist, sigHist>>
    /\ UNCHANGED bootVars

\* if onStopHandler != nil { onStopHandler() } else { range over listeners }
MonStopHookAlsoCloses ==
    /\ mpc = "stophook"
    /\ hookCalls' = IF onStopHandler THEN hookCalls + 1 ELSE hookCalls
    /\ lnIdx' = 1
    /\ mpc' = "closing"
    /\ UNCHANGED <<stopping, waitExit, conn, readResult, onStopHandler, n, i, closedLn>>
    /\ UNCHANGED <<exitCalls, polls, lastPoll, allPos, slept>>
    /\ UNCHANGED <<ctrVars, acqVars, wrkVars, ctrHist, sigHist>>
    /\ UNCHANGED bootVars

MonStopHook ==
    /\ mpc = "stophook"
    /\ IF onStopHandler
         THEN /\ hookCalls' = hookCalls + 1
              /\ mpc' = "poll"
              /\ UNCHANGED lnIdx
         ELSE /\ lnIdx' = 1
              /\ mpc' = "closing"
              /\ UNCHANGED hookCalls
    /\ UNCHANGED <<stopping, waitExit, conn, readResult, onStopHandler, n, i, closedLn>>
    /\ UNCHANGED <<exitCalls, polls, lastPoll, allPos, slept>>
    /\ UNCHANGED <<ctrVars, acqVars, wrkVars, ctrHist, sigHist>>
    /\ UNCHANGED bootVars

\* one iteration of "for _, ln := range listeners { (*ln).Close() }"
MonCloseListener ==
    /\ mpc = "closing"
    /\ lnIdx <= Len(listeners)
    /\ closedLn' = Append(closedLn, listeners[lnIdx])
    /\ lnIdx' = lnIdx + 1
    /\ UNCHANGED <<stopping, waitExit, mpc, conn, readResult, onStopHandler, n, i>>
    /\ UNCHANGED <<ctrVars, acqVars, wrkVars, monHist, ctrHist, sigHist>>
    /\ UNCHANGED bootVars

MonCloseDone ==
    /\ mpc = "closing"
    /\ lnIdx > Len(listeners)
    /\ mpc' = "poll"
    /\ UNCHANGED <<stopping, waitExit, conn, readResult, onStopHandler, n, i, lnIdx, closedLn>>
    /\ UNCHANGED <<ctrVars, acqVars, wrkVars, monHist, ctrHist, sigHist>>
    /\ UNCHANGED bootVars

\* the drain loop: connMutex.RLock()
MonRLock ==
    /\ mpc = "poll"
    /\ CanRLock
    /\ connMutex' = RLock(Monitor)
    /\ mpc' = "check"
    /\ UNCHANGED <<stopping, waitExit, conn, readResult, onStopHandler, n, i, lnIdx, closedLn>>
    /\ UNCHANGED <<connCount, acqVars, wrkVars, monHist, ctrHist, sigHist>>
    /\ UNCHANGED bootVars

\* if connCount <= 0 { RUnlock; break }
DrainedOnlyNegative(c) == c < 0
DrainedAtMostOne(c) == c <= 1
Drained(c) == c <= 0

\* if connCount <= 0 { RUnlock; break }; n = connCount; RUnlock
MonCheck ==
    /\ mpc = "check"
    /\ polls' = polls + 1
    /\ lastPoll' = connCount
    /\ allPos' = (allPos /\ connCount > 0)
    /\ incSincePoll' = FALSE
    /\ IF Drained(connCount)
         THEN /\ mpc' = "exit"
              /\ UNCHANGED n
         ELSE /\ n' = connCount
              /\ mpc' = "sleep"
    /\ connMutex' = RUnlock(Monitor)
    /\ UNCHANGED <<stopping, waitExit, conn, readResult, onStopHandler, i, lnIdx, closedLn>>
    /\ UNCHANGED <<hookCalls, exitCalls, slept>>
    /\ UNCHANGED <<connCount, acqVars, wrkVars, ctrHist, readReturned, everPos>>
    /\ UNCHANGED bootVars

\* if waitExit > 0 && i >= waitExit { break }
DeadlineReachedLate(k) == waitExit > 0 /\ k > waitExit
DeadlineReachedAnySign(k) == k >= waitExit
DeadlineNever(k) == FALSE
DeadlineReached(k) == waitExit > 0 /\ k >= waitExit

\* the sleeps of one run are capped: MaxSleeps without a deadline, and
\* MaxSleeps past the deadline with one
SleepCap == (IF waitExit > 0 THEN waitExit ELSE 0) + MaxSleeps

\* time.Sleep(time.Second); i++; the deadline test
MonSleep ==
    /\ mpc = "sleep"
    /\ i < SleepCap
    /\ slept' = slept + 1
    /\ i' = i + 1
    /\ mpc' = IF DeadlineReached(i') THEN "exit" ELSE "poll"
    /\ UNCHANGED <<stopping, waitExit, conn, readResult, onStopHandler, n, lnIdx, closedLn>>
    /\ UNCHANGED <<hookCalls, exitCalls, polls, lastPoll, allPos>>
    /\ UNCHANGED <<ctrVars, acqVars, wrkVars, ctrHist, sigHist>>
    /\ UNCHANGED bootVars

\* stopHandler(true), then monitorMaster returns
MonExitArgFalse ==
    /\ mpc = "exit"
    /\ exitCalls' = Append(exitCalls, FALSE)
    /\ mpc' = "done"
    /\ UNCHANGED <<stopping, waitExit, conn, readResult, onStopHandler, n, i, lnIdx, closedLn>>
    /\ UNCHANGED <<hookCalls, polls, lastPoll, allPos, slept>>
    /\ UNCHANGED <<ctrVars, acqVars, wrkVars, ctrHist, sigHist>>
    /\ UNCHANGED bootVars

MonExit ==
    /\ mpc = "exit"
    /\ exitCalls' = Append(exitCalls, TRUE)
    /\ mpc' = "done"
    /\ UNCHANGED <<stopping, waitExit, conn, readResult, onStopHandler, n, i, lnIdx, closedLn>>
    /\ UNCHANGED <<hookCalls, polls, lastPoll, allPos, slept>>
    /\ UNCHANGED <<ctrVars, acqVars, wrkVars, ctrHist, sigHist>>
    /\ UNCHANGED bootVars

\* ------------------------------------------------ OnPreJail, OnInit, OnExit
\* a func value: <<>> is nil, <<k>> the k-th function of the embedding service
NilHandler == <<>>
Handlers == {NilHandler} \cup {<<k>> : k \in 1..NumHandlers}

HooksStart ==
    /\ preJailHandler = NilHandler
    /\ initHandler = NilHandler
    /\ exitHandler = NilHandler
    /\ regLog = <<>>

OnPreJail(handler) ==
    /\ preJailHandler' = handler
    /\ regLog' = Append(regLog, <<"prejail", handler>>)
    /\ UNCHANGED <<initHandler, exitHandler>>
    /\ UNCHANGED <<coreVars, adrVars, chrVars>>

OnInit(handler) ==
    /\ initHandler' = handler
    /\ regLog' = Append(regLog, <<"init", handler>>)
    /\ UNCHANGED <<preJailHandler, exitHandler>>
    /\ UNCHANGED <<coreVars, adrVars, chrVars>>

OnExitSetsInitToo(handler) ==
    /\ exitHandler' = handler
    /\ initHandler' = handler
    /\ regLog' = Append(regLog, <<"exit", handler>>)
    /\ UNCHANGED preJailHandler
    /\ UNCHANGED <<coreVars, adrVars, chrVars>>

OnExit(handler) ==
    /\ exitHandler' = handler
    /\ regLog' = Append(regLog, <<"exit", handler>>)
    /\ UNCHANGED <<preJailHandler, initHandler>>
    /\ UNCHANGED <<coreVars, adrVars, chrVars>>

\* ----------------------------------------------------- getListenersByAddrs
\* an address list: up to MaxAddrs addresses out of NumAddrs, repeats allowed
AddrLists == UNION {[1..k -> 1..NumAddrs] : k \in 0..MaxAddrs}

AddrsStart(list) ==
    /\ addrs = list
    /\ apc = "loop"
    /\ aidx = 1
    /\ alisteners = <<>>
    /\ bound = {}
    /\ aret = <<"none">>
    /\ bindFailedAt = 0

\* if err != nil { panic(...) }
AfterListenSkipsFailure(ok) == "loop"
AfterListen(ok) == IF ok THEN "loop" ELSE "panicked"

\* one iteration of the range loop; ok is the outcome of net.Listen("tcp",
\* addr), which fails on an address the process already listens on
AddrsStep ==
    /\ apc = "loop"
    /\ aidx <= Len(addrs)
    /\ \E ok \in BOOLEAN :
         /\ ok => addrs[aidx] \notin bound
         /\ apc' = AfterListen(ok)
         /\ alisteners' = IF ok THEN Append(alisteners, addrs[aidx]) ELSE alisteners
         /\ bound' = IF ok THEN bound \cup {addrs[aidx]} ELSE bound
         /\ bindFailedAt' = IF ok THEN bindFailedAt ELSE aidx
    /\ aidx' = aidx + 1
    /\ UNCHANGED <<addrs, aret>>
    /\ UNCHANGED <<coreVars, hookVars, chrVars>>

AddrsReturn ==
    /\ apc = "loop"
    /\ aidx > Len(addrs)
    /\ aret' = <<"value", alisteners>>
    /\ apc' = "done"
    /\ UNCHANGED <<addrs, aidx, alisteners, bound, bindFailedAt>>
    /\ UNCHANGED <<coreVars, hookVars, chrVars>>

\* ------------------------------------------------------------------ chroot
\* strconv.Atoi on a string given as its sequence of characters: an optional
\* sign, then one or more decimal digits
Digits == {"0", "1", "2", "3", "4", "5", "6", "7", "8", "9"}
DigitVal(c) ==
    CASE c = "0" -> 0 [] c = "1" -> 1 [] c = "2" -> 2 [] c = "3" -> 3
      [] c = "4" -> 4 [] c = "5" -> 5 [] c = "6" -> 6 [] c = "7" -> 7
      [] c = "8" -> 8 [] c = "9" -> 9

RECURSIVE DigitsVal(_)
DigitsVal(str) ==
    IF str = <<>> THEN 0
    ELSE 10 * DigitsVal(SubSeq(str, 1, Len(str) - 1)) + DigitVal(str[Len(str)])

Atoi(str) ==
    LET signed == str # <<>> /\ str[1] \in {"+", "-"}
        body == IF signed THEN Tail(str) ELSE str
    IN  IF body = <<>> \/ \E k \in 1..Len(body) : body[k] \notin Digits
          THEN [ok |-> FALSE, val |-> 0]
          ELSE [ok |-> TRUE,
                val |-> IF signed /\ str[1] = "-" THEN 0 - DigitsVal(body)
                        ELSE DigitsVal(body)]

\* the Gid and Uid strings user.Lookup may give
IdStrings == {<<>>, <<"x">>, <<"7">>, <<"1", "2">>, <<"-", "1">>}

ChrootStart(args, unpriv, owner, jail, dir) ==
    /\ cpc = "start"
    /\ masterArgs = args
    /\ privilege = unpriv
    /\ username = owner
    /\ chrootOn = jail
    /\ rootDir = dir
    /\ userRec = <<>>
    /\ procGid = 0
    /\ procUid = 0
    /\ procRoot = "/"
    /\ procCwd = "initial"
    /\ sysCalls = <<>>

\* if len(masterArgs) == 0 || !privilege || len(username) == 0 { return }
GatePassesIgnoresPrivilege == ~(masterArgs = "" \/ username = "")
GatePasses == ~(masterArgs = "" \/ ~privilege \/ username = "")

ChrootGate ==
    /\ cpc = "start"
    /\ cpc' = IF GatePasses THEN "lookup" ELSE "done"
    /\ UNCHANGED <<cfgVars, userRec, prcVars, sysCalls>>
    /\ UNCHANGED <<coreVars, hookVars, adrVars>>

\* user.Lookup(username): on an error the whole else branch is skipped
ChrootLookup ==
    /\ cpc = "lookup"
    /\ sysCalls' = Append(sysCalls, "Lookup")
    /\ \/ /\ userRec' = <<>>
          /\ cpc' = "confine"
       \/ /\ \E g \in IdStrings, u \in IdStrings : userRec' = <<[Gid |-> g, Uid |-> u]>>
          /\ cpc' = "gid"
    /\ UNCHANGED <<cfgVars, prcVars>>
    /\ UNCHANGED <<coreVars, hookVars, adrVars>>

\* where chroot() goes after the group id step, ok being its success
AfterGidFailureBlocks(ok) == IF ok THEN "uid" ELSE "confine"
AfterGid(ok) == "uid"

\* gid, err := strconv.Atoi(user.Gid); else if err := syscall.Setgid(gid)
ChrootGidIgnoresParseError ==
    /\ cpc = "gid"
    /\ LET gid == Atoi(userRec[1].Gid)
       IN  \E ok \in BOOLEAN :
             /\ ok => gid.val >= 0
             /\ sysCalls' = Append(sysCalls, "Setgid")
             /\ procGid' = IF ok THEN gid.val ELSE procGid
             /\ cpc' = AfterGid(ok)
    /\ UNCHANGED <<cfgVars, userRec, procUid, procRoot, procCwd>>
    /\ UNCHANGED <<coreVars, hookVars, adrVars>>

ChrootGid ==
    /\ cpc = "gid"
    /\ LET gid == Atoi(userRec[1].Gid)
       IN  IF ~gid.ok
             THEN /\ cpc' = AfterGid(FALSE)
                  /\ UNCHANGED <<procGid, sysCalls>>
             ELSE \E ok \in BOOLEAN :
                    /\ ok => gid.val >= 0
                    /\ sysCalls' = Append(sysCalls, "Setgid")
                    /\ procGid' = IF ok THEN gid.val ELSE procGid
                    /\ cpc' = AfterGid(ok)
    /\ UNCHANGED <<cfgVars, userRec, procUid, procRoot, procCwd>>
    /\ UNCHANGED <<coreVars, hookVars, adrVars>>

\* uid, err := strconv.Atoi(user.Uid); else if err := syscall.Setuid(uid)
ChrootUid ==
    /\ cpc = "uid"
    /\ LET uid == Atoi(userRec[1].Uid)
       IN  IF ~uid.ok
             THEN UNCHANGED <<procUid, sysCalls>>
             ELSE \E ok \in BOOLEAN :
                    /\ ok => uid.val >= 0
                    /\ sysCalls' = Append(sysCalls, "Setuid")
                    /\ procUid' = IF ok THEN uid.val ELSE procUid
    /\ cpc' = "confine"
    /\ UNCHANGED <<cfgVars, userRec, procGid, procRoot, procCwd>>
    /\ UNCHANGED <<coreVars, hookVars, adrVars>>

\* if chrootOn && len(rootDir) > 0
ConfineOnlyWhenResolved == chrootOn /\ rootDir # "" /\ userRec # <<>>
ConfineRequested == chrootOn /\ rootDir # ""

\* syscall.Chroot(rootDir)
ChrootConfine ==
    /\ cpc = "confine"
    /\ IF ConfineRequested
         THEN /\ sysCalls' = Append(sysCalls, "Chroot")
              /\ \E ok \in BOOLEAN :
                   /\ procRoot' = IF ok THEN rootDir ELSE procRoot
                   /\ cpc' = IF ok THEN "chdir" ELSE "done"
         ELSE /\ cpc' = "done"
              /\ UNCHANGED <<procRoot, sysCalls>>
    /\ UNCHANGED <<cfgVars, userRec, procGid, procUid, procCwd>>
    /\ UNCHANGED <<coreVars, hookVars, adrVars>>

\* syscall.Chdir("/")
ChrootChdir ==
    /\ cpc = "chdir"
    /\ sysCalls' = Append(sysCalls, "Chdir")
    /\ \E ok \in BOOLEAN : procCwd' = IF ok THEN "/" ELSE procCwd
    /\ cpc' = "done"
    /\ UNCHANGED <<cfgVars, userRec, procGid, procUid, procRoot>>
    /\ UNCHANGED <<coreVars, hookVars, adrVars>>

\* ------------------------------------------------------------ the program
\* the package variables as declared, with the deadline, the "-s" count and
\* the stop hook the embedding service gives
CoreStart(deadline, count, hook) ==
    /\ connCount = 0
    /\ connMutex = [w |-> NoHolder, r |-> {}]
    /\ stopping = FALSE
    /\ waitExit = deadline
    /\ listenFdCount = count
    /\ glpc = "loop"
    /\ fd = listenFdStart
    /\ listeners = <<>>
    /\ closedFiles = {}
    /\ convOk = {}
    /\ wpc = [w \in Procs |-> "idle"]
    /\ wtmp = [w \in Procs |-> 0]
    /\ mpc = "start"
    /\ conn = "none"
    /\ readResult = "none"
    /\ onStopHandler = hook
    /\ n = 0
    /\ i = 0
    /\ lnIdx = 0
    /\ closedLn = <<>>
    /\ hookCalls = 0
    /\ exitCalls = <<>>
    /\ polls = 0
    /\ lastPoll = 0
    /\ allPos = TRUE
    /\ slept = 0
    /\ readReturned = FALSE
    /\ everPos = FALSE
    /\ incSincePoll = FALSE
    /\ incStarted = 0
    /\ incDone = 0
    /\ decStarted = 0
    /\ decDone = 0
    /\ curStarted = 0
    /\ paired = TRUE

\* the start-up parts as declared: no hook, no address, privilege and
\* chrootOn false, nothing read from the configuration
BootStart ==
    /\ HooksStart
    /\ AddrsStart(<<>>)
    /\ ChrootStart("", FALSE, "", FALSE, "")

Start(deadline, count, hook) == CoreStart(deadline, count, hook) /\ BootStart

Init ==
    \E deadline \in (0 - 1)..MaxWaitExit, count \in 1..MaxFdCount, hook \in BOOLEAN :
        Start(deadline, count, hook)

\* the goroutines that serve connections: they run once the listeners are
\* acquired, and issue at most MaxCalls calls in all, never more decrements
\* than the increments the run can still reach
Serving == glpc = "done" /\ Alive
Issued == incStarted + decStarted + curStarted
MayCall == Serving /\ Issued < MaxCalls
MayDec == MayCall /\ decStarted + 1 <= incStarted + (MaxCalls - Issued - 1)

StartInc(w) == MayCall /\ IncLock(w)
StartDec(w) == MayDec /\ DecLock(w)
StartCur(w) == MayCall /\ CurRLock(w)

Worker(w) ==
    \/ StartInc(w)
    \/ IncLoad(w)
    \/ IncStore(w)
    \/ IncUnlock(w)
    \/ StartDec(w)
    \/ DecLoad(w)
    \/ DecStore(w)
    \/ DecUnlock(w)
    \/ StartCur(w)
    \/ CurRead(w)
    \/ CurReturn(w)

MonitorMaster ==
    \/ MonFileConn
    \/ MonRead
    \/ MonSetStopping
    \/ MonStopHook
    \/ MonCloseListener
    \/ MonCloseDone
    \/ MonRLock
    \/ MonCheck
    \/ MonSleep
    \/ MonExit

Next ==
    \/ GetListenersStep
    \/ GetListenersReturn
    \/ \E w \in Procs : Worker(w)
    \/ MonitorMaster

Spec == Init /\ [][Next]_vars

\* ------------------------------------------ the end-to-end drain scenario
\* MaxFdCount inherited descriptors, the default deadline and a stop hook;
\* E2EConns connections are accepted before the master disconnects, and one
\* of them is closed during each one-second sleep of the monitor afterwards.
InitE2E == Start(DefaultWaitExit, MaxFdCount, TRUE)

E2EAccept(w) ==
    /\ Serving
    /\ ~readReturned
    /\ incStarted < E2EConns
    /\ IncLock(w)

E2EFileConn == MonFileConn /\ conn' = "conn"

E2EDisconnect ==
    /\ incDone = E2EConns
    /\ MonRead
    /\ readResult' = "eof"

E2EClose(w) ==
    /\ mpc = "sleep"
    /\ decStarted = slept
    /\ decStarted < E2EConns
    /\ DecLock(w)

E2ESleep ==
    /\ decDone = slept + 1 \/ decDone = E2EConns
    /\ MonSleep

E2EWorker(w) ==
    \/ E2EAccept(w)
    \/ IncLoad(w)
    \/ IncStore(w)
    \/ IncUnlock(w)
    \/ E2EClose(w)
    \/ DecLoad(w)
    \/ DecStore(w)
    \/ DecUnlock(w)

NextE2E ==
    \/ GetListenersStep
    \/ GetListenersReturn
    \/ \E w \in Procs : E2EWorker(w)
    \/ E2EFileConn
    \/ E2EDisconnect
    \/ MonSetStopping
    \/ MonStopHook
    \/ MonRLock
    \/ MonCheck
    \/ E2ESleep
    \/ MonExit

SpecE2E == InitE2E /\ [][NextE2E]_vars

\* -------------------------------------- hook registration beside the drain
\* the embedding service registers hooks, at most MaxRegs times in a run
MayRegister == Len(regLog) < MaxRegs

RegisterPreJail(handler) == MayRegister /\ OnPreJail(handler)
RegisterInit(handler) == MayRegister /\ OnInit(handler)
RegisterExit(handler) == MayRegister /\ OnExit(handler)

NextHooks ==
    \/ NextE2E
    \/ \E handler \in Handlers : RegisterPreJail(handler)
    \/ \E handler \in Handlers : RegisterInit(handler)
    \/ \E handler \in Handlers : RegisterExit(handler)

SpecHooks == InitE2E /\ [][NextHooks]_vars

\* ------------------------------------------- standalone mode: bind by address
InitAddrs ==
    /\ CoreStart(DefaultWaitExit, 1, FALSE)
    /\ HooksStart
    /\ ChrootStart("", FALSE, "", FALSE, "")
    /\ \E list \in AddrLists : AddrsStart(list)

NextAddrs ==
    \/ AddrsStep
    \/ AddrsReturn

SpecAddrs == InitAddrs /\ [][NextAddrs]_vars

\* ------------------------------------------------ chroot() on a configuration
InitChroot ==
    /\ CoreStart(DefaultWaitExit, 1, FALSE)
    /\ HooksStart
    /\ AddrsStart(<<>>)
    /\ \E args \in {"", "-f cfg"}, unpriv \in BOOLEAN, owner \in {"", "nobody"},
          jail \in BOOLEAN, dir \in {"", "/var/jail"} :
         ChrootStart(args, unpriv, owner, jail, dir)

NextChroot ==
    \/ ChrootGate
    \/ ChrootLookup
    \/ ChrootGid
    \/ ChrootUid
    \/ ChrootConfine
    \/ ChrootChdir

SpecChroot == InitChroot /\ [][NextChroot]_vars

\* ================================================================ claims
NoCallInProgress == incStarted = incDone /\ decStarted = decDone
InDrainLoop == mpc \in {"poll", "check", "sleep", "exit", "done"}
Exiting == mpc \in {"exit", "done"}

\* C1: no increment or decrement is lost: once every issued connCountInc and
\* connCountDec call has completed, connCount, and the value a connCountCur
\* call has read under its read lock, is the number of completed increments
\* minus the number of completed decrements (N - M).
C1_NoLostUpdate ==
    /\ NoCallInProgress => connCount = incDone - decDone
    /\ \A w \in Procs :
         (wpc[w] = "cur_read" /\ NoCallInProgress) => wtmp[w] = incDone - decDone

\* a snapshot taken after an increment and a decrement have both completed
C1_Witness ==
    \E w \in Procs :
        /\ wpc[w] = "cur_read"
        /\ incDone >= 1
        /\ decDone >= 1
        /\ NoCallInProgress

C3_ReadTriggersDrain ==
    /\ [](/\ stopping => readReturned
          /\ (hookCalls > 0 \/ closedLn # <<>> \/ polls > 0) => stopping
          /\ mpc = "stopping" => (readReturned /\ readResult \in {"data", "eof", "error"})
          /\ readReturned => mpc \notin {"start", "read", "panicked"})
    /\ [][(mpc = "read" /\ readReturned') => mpc' = "stopping"]_vars
    /\ [][(mpc = "stopping" /\ mpc' # mpc) => (stopping' /\ mpc' = "stophook")]_vars

\* the read returned an error and the monitor is about to set stopping
C3_Witness == mpc = "stopping" /\ readResult = "error" /\ ~stopping

IsPrefix(a, b) == Len(a) <= Len(b) /\ \A k \in 1..Len(a) : a[k] = b[k]

\* C4: stopping is set first; then either the stop hook is called once and
\* the monitor closes no listener, or (no hook) every listener is closed once,
\* in sequence order; all of it before the drain loop first reads connCount.
C4_StopStepBeforeDrain ==
    /\ (hookCalls > 0 \/ closedLn # <<>> \/ mpc \in {"stophook", "closing"}) => stopping
    /\ hookCalls <= 1
    /\ onStopHandler => closedLn = <<>>
    /\ ~onStopHandler => hookCalls = 0
    /\ IsPrefix(closedLn, listeners)
    /\ (InDrainLoop \/ polls > 0) =>
          IF onStopHandler THEN hookCalls = 1 ELSE closedLn = listeners

\* without a hook, both listeners were closed before the first poll
C4_Witness ==
    /\ ~onStopHandler
    /\ Len(listeners) = 2
    /\ closedLn = listeners
    /\ polls = 1

\* C5: with a positive deadline d and a counter > 0 at every poll, the
\* monitor leaves the drain loop after exactly d one-second sleeps.
C5_ForcedExitAtDeadline ==
    (waitExit > 0 /\ allPos) =>
        /\ slept <= waitExit
        /\ Exiting => (slept = waitExit /\ i = waitExit /\ polls = waitExit)

\* deadline 3, counter never zero: stopHandler called after 3 sleeps
C5_Witness ==
    /\ waitExit = 3
    /\ allPos
    /\ mpc = "done"
    /\ slept = 3
    /\ exitCalls = <<TRUE>>

\* C6: when connCount is <= 0 at the return of the control read and stays
\* so, the first poll ends the drain loop and the monitor never sleeps.
C6_ImmediateExitWhenIdle ==
    (readReturned /\ ~everPos) =>
        /\ slept = 0
        /\ i = 0
        /\ mpc # "sleep"
        /\ polls <= 1
        /\ polls = 1 => Exiting

\* the counter went up and back to zero before the signal; exit without sleep
C6_Witness ==
    /\ mpc = "done"
    /\ ~everPos
    /\ incDone >= 1
    /\ polls = 1
    /\ slept = 0

\* C7: with waitExit <= 0 the monitor calls stopHandler only after a poll
\* that read connCount <= 0, however many seconds have passed.
C7_NoDeadlineWaitsForDrain ==
    waitExit <= 0 =>
        /\ Exiting => (polls > 0 /\ lastPoll <= 0)
        /\ (polls > 0 /\ allPos) => (~Exiting /\ exitCalls = <<>>)

\* no deadline: the monitor slept MaxSleeps times, then saw the counter at zero
C7_Witness ==
    /\ waitExit <= 0
    /\ mpc = "done"
    /\ slept = MaxSleeps
    /\ lastPoll <= 0

\* C8: stopHandler is called exactly once, with true, after the drain loop
\* ended on a poll <= 0 or on a positive deadline reached; afterwards there
\* is no poll, no sleep and no second read of the control connection.
C8_ExitOnceAfterDrain ==
    /\ [](/\ Len(exitCalls) <= 1
          /\ \A k \in 1..Len(exitCalls) : exitCalls[k] = TRUE
          /\ mpc = "done" <=> Len(exitCalls) = 1
          /\ Exiting => /\ polls > 0
                        /\ lastPoll <= 0 \/ (waitExit > 0 /\ i >= waitExit)
                        /\ Monitor \notin connMutex.r)
    /\ [][exitCalls # <<>> =>
            (polls' = polls /\ slept' = slept /\ mpc' = "done" /\ exitCalls' = exitCalls)]_vars
    /\ [][readReturned => mpc' # "read"]_vars

\* stopHandler(true) was called after a deadline exit
C8_Witness ==
    /\ exitCalls = <<TRUE>>
    /\ lastPoll > 0
    /\ i = waitExit

\* C9: end to end, with the default deadline, E2EConns connections open at
\* the disconnect and one closed per second: the stop hook is called once,
\* before any poll and before any close; the drain loop ends after E2EConns
\* sleeps on a poll that reads 0, not at the deadline; stopHandler is called
\* once, with true, after the counter reached zero.
C9_EndToEndDrain ==
    /\ hookCalls <= 1
    /\ (polls > 0 \/ decStarted > 0 \/ InDrainLoop) => hookCalls = 1
    /\ hookCalls = 1 => stopping
    /\ slept <= E2EConns
    /\ polls > 0 => lastPoll = E2EConns - (polls - 1)
    /\ Exiting => /\ slept = E2EConns
                  /\ slept < waitExit
                  /\ lastPoll = 0
                  /\ connCount = 0
                  /\ decDone = E2EConns
    /\ Len(exitCalls) <= 1
    /\ mpc = "done" <=> exitCalls = <<TRUE>>

\* the scenario has run to its end
C9_Witness ==
    /\ mpc = "done"
    /\ waitExit = DefaultWaitExit
    /\ slept = E2EConns
    /\ hookCalls = 1
    /\ exitCalls = <<TRUE>>

\* C10: getListeners visits the descriptors in ascending order, closes and
\* skips the ones that do not convert, and returns the converted ones, each
\* once, in ascending order.
C10_InheritedListeners ==
    /\ Len(listeners) <= listenFdCount
    /\ \A j, k \in 1..Len(listeners) : j < k => listeners[j] < listeners[k]
    /\ {listeners[k] : k \in 1..Len(listeners)} = convOk
    /\ closedFiles = (listenFdStart .. (fd - 1)) \ convOk
    /\ convOk \subseteq FdRange
    /\ glpc = "done" => (convOk \cup closedFiles) = FdRange

\* the first descriptor failed and was skipped, the second one was kept
C10_Witness ==
    /\ glpc = "done"
    /\ listenFdCount = 2
    /\ listeners = <<listenFdStart + 1>>
    /\ closedFiles = {listenFdStart}

Stored(pcname) == Cardinality({w \in Procs : wpc[w] = pcname})

\* C16: when every connection calls connCountInc once at accept and
\* connCountDec once at close, after its own increment, connCount is the
\* number of connections accepted and not yet closed, under every
\* interleaving of the serving goroutines and the monitor, and so is >= 0.
C16_CountsOpenConnections ==
    paired =>
        /\ connCount = (incDone + Stored("inc_stored")) - (decDone + Stored("dec_stored"))
        /\ connMutex.w = NoHolder => connCount = incDone - decDone
        /\ mpc = "check" => connCount = incDone - decDone
        /\ incDone - decDone >= 0
        /\ connCount >= 0

\* two connections accepted, one of them closed, while the monitor drains
C16_Witness ==
    /\ paired
    /\ stopping
    /\ incDone = 2
    /\ decDone = 1
    /\ connCount = 1

\* C17: with a positive deadline d the drain loop sleeps at most d times,
\* whatever the serving goroutines do to connCount; the deadline ends the
\* loop only right after the d-th sleep, never during or before one.
C17_BoundedDrain ==
    waitExit > 0 =>
        /\ slept <= waitExit
        /\ i = slept
        /\ (mpc \in {"poll", "check", "sleep"}) => slept < waitExit
        /\ (Exiting /\ lastPoll > 0) => (slept = waitExit /\ polls = waitExit)
        /\ (Exiting /\ lastPoll <= 0) => polls = slept + 1

\* the counter was still raised while the monitor drained; forced exit
C17_Witness ==
    /\ waitExit = 2
    /\ mpc = "done"
    /\ slept = 2
    /\ lastPoll = 2
    /\ n = 2
    /\ incDone = MaxCalls

\* C19: when net.FileConn fails the monitor still goes on as on a
\* disconnect and reaches stopHandler(true); it does not abort.
C19_FileConnFailureStillDrains == conn = "nil" => mpc # "panicked"

\* C18 (as stated): with no deadline there is no in-flight connection when
\* the monitor calls stopHandler: connCount <= 0 in the state it is called in.
C18_NoConnectionAtExit == (waitExit <= 0 /\ mpc = "exit") => connCount <= 0

\* C18 (amended): with no deadline the monitor calls stopHandler only after a
\* poll that read connCount <= 0, and connCount is still <= 0 in the state it
\* is called in unless a connCountInc has stored since that poll.
C18_NoConnectionAtExitUnlessIncAfterPoll ==
    (waitExit <= 0 /\ mpc = "exit") =>
        /\ lastPoll <= 0
        /\ ~incSincePoll => connCount <= 0
        /\ connCount > 0 => incStarted > 0

\* the loop ended on a poll of zero after a connection was closed, and no
\* increment came afterwards
C18_Witness ==
    /\ waitExit <= 0
    /\ mpc = "exit"
    /\ ~incSincePoll
    /\ slept >= 1
    /\ decDone >= 1
    /\ connCount = 0

\* ---- helpers over the log of calls chroot() made
Called(name) == \E k \in 1..Len(sysCalls) : sysCalls[k] = name
Pos(name) == CHOOSE k \in 1..Len(sysCalls) : sysCalls[k] = name
LookupFailed == Called("Lookup") /\ userRec = <<>>
Resolved == userRec # <<>>
BadGid == Resolved /\ ~Atoi(userRec[1].Gid).ok
BadUid == Resolved /\ ~Atoi(userRec[1].Uid).ok
LastReg(slot) ==
    LET idx == {k \in 1..Len(regLog) : regLog[k][1] = slot}
    IN  IF idx = {} THEN NilHandler
        ELSE regLog[CHOOSE k \in idx : \A j \in idx : j <= k][2]

\* C11: getListenersByAddrs is all-or-nothing. A value is returned only when
\* every address was bound, and it then holds one listener per address in the
\* order of the address list; a bind failure panics at that address, nothing
\* is returned, and no later address is tried.
C11_AllOrNothing ==
    /\ aret # <<"none">> =>
         /\ apc = "done"
         /\ bindFailedAt = 0
         /\ aret = <<"value", addrs>>
    /\ bindFailedAt # 0 =>
         /\ apc = "panicked"
         /\ aret = <<"none">>
         /\ aidx = bindFailedAt + 1
         /\ alisteners = SubSeq(addrs, 1, bindFailedAt - 1)

\* the first of three addresses was bound, the second failed, the third was
\* never tried
C11_Witness ==
    /\ apc = "panicked"
    /\ Len(addrs) = 3
    /\ bindFailedAt = 2
    /\ Len(alisteners) = 1

\* C12: when master_args is empty, or unprivileged mode is off, or no
\* username is configured, chroot() returns at its gate: no lookup, no
\* Setgid, no Setuid, no Chroot, no Chdir, and the process state is as before.
C12_GateSkipsEverything ==
    (masterArgs = "" \/ ~privilege \/ username = "") =>
        /\ cpc \in {"start", "done"}
        /\ sysCalls = <<>>
        /\ userRec = <<>>
        /\ procGid = 0 /\ procUid = 0
        /\ procRoot = "/" /\ procCwd = "initial"

\* chroot() returned with everything configured except unprivileged mode
C12_Witness ==
    /\ cpc = "done"
    /\ ~privilege
    /\ masterArgs # "" /\ username # ""
    /\ chrootOn /\ rootDir # ""

\* C13: once the username resolved, Setgid comes strictly before Setuid,
\* Setuid is attempted only after Setgid was attempted or skipped for an
\* unparsable gid, a failed group id step does not block Setuid (it is
\* attempted exactly when the uid parses), and requested root confinement is
\* attempted as well.
C13_SetgidBeforeSetuid ==
    Resolved =>
        /\ (Called("Setgid") /\ Called("Setuid")) => Pos("Setgid") < Pos("Setuid")
        /\ Called("Setuid") => (Called("Setgid") \/ BadGid)
        /\ cpc \in {"confine", "chdir", "done"} => (Called("Setuid") <=> ~BadUid)
        /\ (cpc = "done" /\ chrootOn /\ rootDir # "") => Called("Chroot")

\* Setgid failed, Setuid then succeeded, and Chroot was attempted
C13_Witness ==
    /\ cpc = "done"
    /\ Called("Setgid") /\ procGid = 0
    /\ Called("Setuid") /\ procUid # 0
    /\ Called("Chroot")

\* C14 as stated: on any identity resolution error (unknown username,
\* unparsable gid or uid) neither the group id nor the user id is changed.
C14_ResolutionErrorChangesNothing ==
    (LookupFailed \/ BadGid \/ BadUid) => (procGid = 0 /\ procUid = 0)

\* C14 amended: an unknown username skips both identity steps; an unparsable
\* gid skips only Setgid and an unparsable uid skips only Setuid, so the
\* other id may still be changed in that run.
C14_ResolutionErrorSkipsItsStep ==
    /\ LookupFailed =>
         /\ ~Called("Setgid") /\ ~Called("Setuid")
         /\ procGid = 0 /\ procUid = 0
    /\ BadGid => (~Called("Setgid") /\ procGid = 0)
    /\ BadUid => (~Called("Setuid") /\ procUid = 0)

\* the gid did not parse and the user id was changed all the same
C14_Witness ==
    /\ cpc = "done"
    /\ BadGid
    /\ ~Called("Setgid")
    /\ procUid # 0

\* C15: each hook slot holds the handler of the last registration made to
\* it, nil if none was made, and a registration leaves the other two slots,
\* the counter and the stopping flag unchanged.
C15_LastRegistrationWins ==
    /\ [](/\ preJailHandler = LastReg("prejail")
          /\ initHandler = LastReg("init")
          /\ exitHandler = LastReg("exit"))
    /\ [][regLog' # regLog =>
            LET slot == regLog'[Len(regLog')][1]
            IN  /\ connCount' = connCount
                /\ stopping' = stopping
                /\ slot # "prejail" => preJailHandler' = preJailHandler
                /\ slot # "init" => initHandler' = initHandler
                /\ slot # "exit" => exitHandler' = exitHandler]_vars

\* the exit slot was registered twice with different handlers while a
\* connection was open, and the other slots are still nil
C15_Witness ==
    /\ Len(regLog) = 2
    /\ regLog[1][1] = "exit" /\ regLog[2][1] = "exit"
    /\ regLog[1][2] # regLog[2][2]
    /\ exitHandler = regLog[2][2]
    /\ preJailHandler = NilHandler /\ initHandler = NilHandler
    /\ connCount > 0

\* C20: past the gate, Chroot(rootDir) is attempted exactly when chrootOn is
\* set and rootDir is non-empty, after every identity step and whatever
\* their outcome (a failed lookup included); Chdir("/") is attempted exactly
\* when that Chroot succeeded; and the confinement steps leave the group id
\* and the user id as the identity steps set them.
C20_RootConfinement ==
    /\ [](/\ (Called("Chroot") \/ Called("Chdir")) => (chrootOn /\ rootDir # "")
          /\ (cpc \in {"chdir", "done"} /\ Called("Lookup") /\ chrootOn /\ rootDir # "")
               => Called("Chroot")
          /\ Called("Chroot") =>
               \A name \in {"Lookup", "Setgid", "Setuid"} :
                   Called(name) => Pos(name) < Pos("Chroot")
          /\ Called("Chdir") => (Called("Chroot") /\ Pos("Chroot") < Pos("Chdir"))
          /\ cpc = "done" => (Called("Chdir") <=> procRoot # "/"))
    /\ [][(cpc \in {"confine", "chdir"}) =>
            (procGid' = procGid /\ procUid' = procUid)]_vars

\* the lookup failed, and the process was confined and moved to the new root
C20_Witness ==
    /\ cpc = "done"
    /\ LookupFailed
    /\ Called("Chroot") /\ Called("Chdir")
    /\ procRoot = rootDir /\ procCwd = "/"

====
